---- MODULE Spec2Model ----
(***************************************************************************)
(* The filter / KPI / insight / export pipeline of the supply-chain        *)
(* dashboard (src/app.py).  One execution of the Streamlit script is one   *)
(* interaction: the cached load, the sidebar selection, the four column    *)
(* filters, the KPI reductions, the three grouped-extremum insights, the   *)
(* chart tabs and the CSV download.                                        *)
(*                                                                         *)
(* Text (column names, CSV fields) is a sequence of one-character strings, *)
(* so that pandas' conversions (header normalisation, read_csv's type      *)
(* inference, to_csv's rendering, the sorted group keys of groupby) are    *)
(* computed and not assumed.  Numbers are non-negative integers; means are *)
(* kept as exact fractions num/den.  Fields are never empty and hold no    *)
(* delimiter or quote, so no cell is NaN and no field needs quoting.       *)
(***************************************************************************)
EXTENDS Integers, Sequences, FiniteSets, TLC

VARIABLES
    file,            \* cleaned_supply_chain1.csv: [header, rows] of text fields
    cache,           \* st.cache_data's entry for load_data(): None or a frame
    data,            \* the script's `data`
    product_type,    \* the four multiselect results
    supplier,
    location,
    transport_mode,
    filtered_data,   \* the script's `filtered_data`
    kpi,             \* total_revenue, avg_lead_time, total_production, avg_defect_rate
    insights,        \* top_location_revenue, highest_cost_supplier, most_efficient_mode
    csv,             \* the bytes handed to st.download_button
    pc               \* where the script run stands

vars == <<file, cache, data, product_type, supplier, location, transport_mode,
          filtered_data, kpi, insights, csv, pc>>

----------------------------------------------------------------------------
(* Bounds of the model *)

\* rows of a file whose four filter columns all vary
MaxFilterRows == 2

\* rows of a file in which one group column and its value column vary
MaxGroupRows == 3

----------------------------------------------------------------------------
(* Text *)

UpperChars ==
    <<"A","B","C","D","E","F","G","H","I","J","K","L","M","N","O","P","Q","R","S","T","U","V","W","X","Y","Z">>

LowerChars ==
    <<"a","b","c","d","e","f","g","h","i","j","k","l","m","n","o","p","q","r","s","t","u","v","w","x","y","z">>

Digits ==
    <<"0","1","2","3","4","5","6","7","8","9">>

\* the characters of the model in code-point order (Python compares str by code point)
CodePoints ==
    <<" ","0","1","2","3","4","5","6","7","8","9","A","B","C","D","E","F","G","H","I","J","K","L","M","N","O","P","Q","R","S","T","U","V","W","X","Y","Z","_","a","b","c","d","e","f","g","h","i","j","k","l","m","n","o","p","q","r","s","t","u","v","w","x","y","z">>

Range(s) ==
    {s[i] : i \in DOMAIN s}

IndexOf(s, x) ==
    CHOOSE i \in DOMAIN s : s[i] = x

Ord(c) ==
    IndexOf(CodePoints, c)

\* str.lower() on one character
LowerChar(c) ==
    IF c \in Range(UpperChars) THEN LowerChars[IndexOf(UpperChars, c)] ELSE c

\* .str.lower()
Lower(t) ==
    [i \in DOMAIN t |-> LowerChar(t[i])]

RECURSIVE LStrip(_)
LStrip(t) ==
    IF t # <<>> /\ Head(t) = " " THEN LStrip(Tail(t)) ELSE t

RECURSIVE RStrip(_)
RStrip(t) ==
    IF t # <<>> /\ t[Len(t)] = " " THEN RStrip(SubSeq(t, 1, Len(t) - 1)) ELSE t

\* .str.strip()
Strip(t) ==
    RStrip(LStrip(t))

\* .str.replace(' ', '_')
ReplaceSpace(t) ==
    [i \in DOMAIN t |-> IF t[i] = " " THEN "_" ELSE t[i]]

\* data.columns.str.strip().str.lower().str.replace(' ', '_') on one name
NormalizeName(t) ==
    ReplaceSpace(Lower(Strip(t)))

\* read_csv's integer inference on one field: digits only, at least one
IsIntText(t) ==
    t # <<>> /\ \A i \in DOMAIN t : t[i] \in Range(Digits)

RECURSIVE ParseInt(_)
ParseInt(t) ==
    IF t = <<>> THEN 0
    ELSE ParseInt(SubSeq(t, 1, Len(t) - 1)) * 10 + (IndexOf(Digits, t[Len(t)]) - 1)

RECURSIVE FormatInt(_)
FormatInt(n) ==
    IF n < 10 THEN <<Digits[n + 1]>>
    ELSE FormatInt(n \div 10) \o <<Digits[(n % 10) + 1]>>

----------------------------------------------------------------------------
(* Cells and frames *)

\* a cell of an object column holding a Python str
StrCell(t) ==
    [k |-> "str", s |-> t, n |-> 0]

\* a cell of an int64 column
IntCell(v) ==
    [k |-> "int", s |-> <<>>, n |-> v]

None ==
    [columns |-> <<>>, rows |-> <<>>, none |-> TRUE]

Frame(cols, rws) ==
    [columns |-> cols, rows |-> rws, none |-> FALSE]

\* df[name]: the position of the column called name
ColIndex(df, name) ==
    IndexOf(df.columns, name)

\* df[name] as the sequence of its cells
Column(df, name) ==
    [i \in DOMAIN df.rows |-> df.rows[i][ColIndex(df, name)]]

\* pd.read_csv: the header as written, and per column int64 when every field of
\* the column is an integer, else object (str)
read_csv(f) ==
    LET isInt(j) == f.rows # <<>> /\ \A i \in DOMAIN f.rows : IsIntText(f.rows[i][j])
        cell(i, j) == IF isInt(j) THEN IntCell(ParseInt(f.rows[i][j]))
                      ELSE StrCell(f.rows[i][j])
    IN  Frame(f.header,
              [i \in DOMAIN f.rows |-> [j \in DOMAIN f.header |-> cell(i, j)]])

\* the body of load_data()
load_data(f) ==
    LET raw == read_csv(f)
    IN  Frame([j \in DOMAIN raw.columns |-> NormalizeName(raw.columns[j])], raw.rows)

\* how to_csv writes one cell
CellText(c) ==
    IF c.k = "int" THEN FormatInt(c.n) ELSE c.s

\* filtered_data.to_csv(index=False): the header row, then one row per record
to_csv(df) ==
    [header |-> df.columns,
     rows   |-> [i \in DOMAIN df.rows |->
                   [j \in DOMAIN df.columns |-> CellText(df.rows[i][j])]]]

----------------------------------------------------------------------------
(* Column names the script looks up *)

c_product_type ==
    <<"p","r","o","d","u","c","t","_","t","y","p","e">>

c_supplier_name ==
    <<"s","u","p","p","l","i","e","r","_","n","a","m","e">>

c_location ==
    <<"l","o","c","a","t","i","o","n">>

c_transportation_modes ==
    <<"t","r","a","n","s","p","o","r","t","a","t","i","o","n","_","m","o","d","e","s">>

c_revenue_generated ==
    <<"r","e","v","e","n","u","e","_","g","e","n","e","r","a","t","e","d">>

c_lead_time ==
    <<"l","e","a","d","_","t","i","m","e">>

c_production_volumes ==
    <<"p","r","o","d","u","c","t","i","o","n","_","v","o","l","u","m","e","s">>

c_defect_rates ==
    <<"d","e","f","e","c","t","_","r","a","t","e","s">>

c_manufacturing_costs ==
    <<"m","a","n","u","f","a","c","t","u","r","i","n","g","_","c","o","s","t","s">>

c_costs ==
    <<"c","o","s","t","s">>

----------------------------------------------------------------------------
(* Filter engine: lines 35-43 *)

\* isin with the mask negated: keeps the rows whose cell is not chosen
isin_not(df, name, chosen) ==
    LET j == IndexOf(df.columns, name)
        keep(r) == r[j] \notin chosen
    IN  Frame(df.columns, SelectSeq(df.rows, keep))

\* isin followed by a slice that loses the first kept row
isin_off_by_one(df, name, chosen) ==
    LET j == IndexOf(df.columns, name)
        keep(r) == r[j] \in chosen
        kept == SelectSeq(df.rows, keep)
    IN  Frame(df.columns, IF kept = <<>> THEN kept ELSE Tail(kept))

\* df[df[name].isin(chosen)]: a new frame of the rows whose cell is in chosen
isin(df, name, chosen) ==
    LET j == ColIndex(df, name)
        keep(r) == r[j] \in chosen
    IN  Frame(df.columns, SelectSeq(df.rows, keep))

\* the step without its `if chosen:` guard: an empty selection excludes everything
FilterStep_no_passthrough(df, name, chosen) ==
    LET j == IndexOf(df.columns, name)
        keep(r) == r[j] \in chosen
    IN  Frame(df.columns, SelectSeq(df.rows, keep))

\* `if chosen: filtered_data = filtered_data[filtered_data[name].isin(chosen)]`
FilterStep(df, name, chosen) ==
    IF chosen # {} THEN isin(df, name, chosen) ELSE df

\* every step filtering `data` instead of `filtered_data`: only the last one counts
filter_columns_unchained(df, pt, sup, loc, tm) ==
    LET pick(name, chosen, prev) ==
            IF chosen # {}
            THEN Frame(df.columns,
                       SelectSeq(df.rows,
                                 LAMBDA r : r[IndexOf(df.columns, name)] \in chosen))
            ELSE prev
        f1 == pick(c_product_type, pt, df)
        f2 == pick(c_supplier_name, sup, f1)
        f3 == pick(c_location, loc, f2)
    IN  pick(c_transportation_modes, tm, f3)

\* filtered_data after the four steps, in the script's order
filter_columns(df, pt, sup, loc, tm) ==
    LET f1 == FilterStep(df, c_product_type, pt)
        f2 == FilterStep(f1, c_supplier_name, sup)
        f3 == FilterStep(f2, c_location, loc)
    IN  FilterStep(f3, c_transportation_modes, tm)

\* data[name].unique(): the options of a multiselect
unique(df, name) ==
    Range(Column(df, name))

----------------------------------------------------------------------------
(* Aggregation: lines 49-52 and 63-65 *)

NaN ==
    [nan |-> TRUE, num |-> 0, den |-> 1]

Frac(a, b) ==
    [nan |-> FALSE, num |-> a, den |-> b]

RECURSIVE SumCells(_)
SumCells(cells) ==
    IF cells = <<>> THEN 0 ELSE Head(cells).n + SumCells(Tail(cells))

\* Series.sum(): 0 over no rows
sum(df, name) ==
    Frac(SumCells(Column(df, name)), 1)

\* Series.mean(): NaN over no rows, no exception
mean(df, name) ==
    IF df.rows = <<>> THEN NaN
    ELSE Frac(SumCells(Column(df, name)), Len(df.rows))

\* a < b on two numbers that are not NaN
NumLess(a, b) ==
    a.num * b.den < b.num * a.den

RECURSIVE TextLess(_, _)
\* Python's str <
TextLess(s, t) ==
    IF t = <<>> THEN FALSE
    ELSE IF s = <<>> THEN TRUE
    ELSE IF Head(s) # Head(t) THEN Ord(Head(s)) < Ord(Head(t))
    ELSE TextLess(Tail(s), Tail(t))

\* the order of group keys: a column is all int64 or all str
CellLess(a, b) ==
    IF a.k = "int" THEN a.n < b.n ELSE TextLess(a.s, b.s)

RECURSIVE SortCells(_)
SortCells(S) ==
    IF S = {} THEN <<>>
    ELSE LET m == CHOOSE m \in S : \A x \in S : x = m \/ CellLess(m, x)
         IN  <<m>> \o SortCells(S \ {m})

\* the rows of one group
Group(df, by, key) ==
    isin(df, by, {key})

\* df.groupby(by)[val].sum(): one entry per key, keys sorted (sort=True)
groupby_sum(df, by, val) ==
    LET keys == SortCells(unique(df, by))
    IN  [i \in DOMAIN keys |->
           [key |-> keys[i], value |-> sum(Group(df, by, keys[i]), val)]]

\* df.groupby(by)[val].mean()
groupby_mean(df, by, val) ==
    LET keys == SortCells(unique(df, by))
    IN  [i \in DOMAIN keys |->
           [key |-> keys[i], value |-> mean(Group(df, by, keys[i]), val)]]

\* what idxmax()/idxmin() raise on an empty Series
ValueError ==
    [ok |-> FALSE, key |-> StrCell(<<>>)]

Label(c) ==
    [ok |-> TRUE, key |-> c]

\* idxmax keeping the last occurrence of the maximum (>= where > is meant)
idxmax_last(series) ==
    IF series = <<>> THEN [ok |-> FALSE, key |-> StrCell(<<>>)]
    ELSE LET best(i) == \A j \in DOMAIN series : ~NumLess(series[i].value, series[j].value)
             last == CHOOSE i \in DOMAIN series :
                         best(i) /\ \A j \in (i + 1)..Len(series) : ~best(j)
         IN  [ok |-> TRUE, key |-> series[last].key]

\* Series.idxmax(): the label of the first occurrence of the maximum
idxmax(series) ==
    IF series = <<>> THEN ValueError
    ELSE LET best(i) == \A j \in DOMAIN series : ~NumLess(series[i].value, series[j].value)
             first == CHOOSE i \in DOMAIN series :
                          best(i) /\ \A j \in 1..(i - 1) : ~best(j)
         IN  Label(series[first].key)

\* Series.idxmin(): the label of the first occurrence of the minimum
idxmin(series) ==
    IF series = <<>> THEN ValueError
    ELSE LET best(i) == \A j \in DOMAIN series : ~NumLess(series[j].value, series[i].value)
             first == CHOOSE i \in DOMAIN series :
                          best(i) /\ \A j \in 1..(i - 1) : ~best(j)
         IN  Label(series[first].key)

\* the top location taken by mean revenue, as the supplier insight reduces
top_location_by_mean(df) ==
    idxmax(groupby_mean(df, c_location, c_revenue_generated))

top_location_revenue_of(df) ==
    idxmax(groupby_sum(df, c_location, c_revenue_generated))

highest_cost_supplier_of(df) ==
    idxmax(groupby_mean(df, c_supplier_name, c_manufacturing_costs))

most_efficient_mode_of(df) ==
    idxmin(groupby_mean(df, c_transportation_modes, c_costs))

----------------------------------------------------------------------------
(* The input file *)

\* the header line: capitals, inner spaces and padding, which load_data normalises
RawHeader ==
    << <<"P","r","o","d","u","c","t"," ","T","y","p","e">>,
       <<"S","u","p","p","l","i","e","r"," ","N","a","m","e">>,
       <<" ","L","o","c","a","t","i","o","n"," ">>,
       <<"T","r","a","n","s","p","o","r","t","a","t","i","o","n"," ","M","o","d","e","s">>,
       <<"R","e","v","e","n","u","e"," ","G","e","n","e","r","a","t","e","d">>,
       <<"L","e","a","d"," ","T","i","m","e">>,
       <<"P","r","o","d","u","c","t","i","o","n"," ","V","o","l","u","m","e","s">>,
       <<"D","e","f","e","c","t"," ","R","a","t","e","s">>,
       <<"M","a","n","u","f","a","c","t","u","r","i","n","g"," ","C","o","s","t","s">>,
       <<"C","o","s","t","s"," ">> >>

\* one line of the file, fields in header order
Row(pt, sup, loc, tm, rev, mc, c) ==
    <<pt, sup, loc, tm, FormatInt(rev), <<"5">>, <<"1","0">>, <<"2">>,
      FormatInt(mc), FormatInt(c)>>

\* lines in which the filter columns vary, two of the four at a time
FilterRows ==
    LET pts == {<<"H">>, <<"K">>}
        sups == {<<"S">>, <<"T">>}
        locs == {<<"A">>, <<"B">>}
        tms == {<<"R">>, <<"V">>}
    IN  {Row(pt, sup, <<"A">>, <<"R">>, 100, 3, 4) : pt \in pts, sup \in sups}
        \cup {Row(pt, <<"S">>, loc, <<"R">>, 100, 3, 4) : pt \in pts, loc \in locs}
        \cup {Row(pt, <<"S">>, <<"A">>, tm, 100, 3, 4) : pt \in pts, tm \in tms}
        \cup {Row(<<"H">>, sup, loc, <<"R">>, 100, 3, 4) : sup \in sups, loc \in locs}
        \cup {Row(<<"H">>, sup, <<"A">>, tm, 100, 3, 4) : sup \in sups, tm \in tms}
        \cup {Row(<<"H">>, <<"S">>, loc, tm, 100, 3, 4) : loc \in locs, tm \in tms}

\* lines in which the location and its revenue vary
LocationRows ==
    {Row(<<"H">>, <<"S">>, loc, <<"R">>, rev, 3, 4) :
        loc \in {<<"A">>, <<"B">>}, rev \in {60, 100, 150}}

\* lines in which the supplier and its manufacturing cost vary; one supplier
\* name is written in digits
SupplierRows ==
    {Row(<<"H">>, sup, <<"A">>, <<"R">>, 100, mc, 4) :
        sup \in {<<"S">>, <<"0","7">>}, mc \in {2, 3}}

\* lines in which the transportation mode and its cost vary
ModeRows ==
    {Row(<<"H">>, <<"S">>, <<"A">>, tm, 100, 3, c) :
        tm \in {<<"R">>, <<"V">>}, c \in {2, 3}}

SeqsUpTo(S, n) ==
    UNION {[1..k -> S] : k \in 0..n}

FilterFiles ==
    [header : {RawHeader}, rows : SeqsUpTo(FilterRows, MaxFilterRows)]

GroupFiles ==
    [header : {RawHeader},
     rows : SeqsUpTo(LocationRows, MaxGroupRows)
            \cup SeqsUpTo(SupplierRows, MaxGroupRows)
            \cup SeqsUpTo(ModeRows, MaxGroupRows)]

----------------------------------------------------------------------------
(* The script run *)

NoKpi ==
    [set |-> FALSE, total_revenue |-> NaN, avg_lead_time |-> NaN,
     total_production |-> NaN, avg_defect_rate |-> NaN]

NoInsights ==
    [set |-> FALSE, top_location_revenue |-> ValueError,
     highest_cost_supplier |-> ValueError, most_efficient_mode |-> ValueError]

NoCsv ==
    [header |-> <<>>, rows |-> <<>>]

\* nothing of a script run is bound yet
Fresh ==
    /\ product_type = {}
    /\ supplier = {}
    /\ location = {}
    /\ transport_mode = {}
    /\ filtered_data = None
    /\ kpi = NoKpi
    /\ insights = NoInsights
    /\ csv = NoCsv

InitWith(files) ==
    /\ file \in files
    /\ cache = None
    /\ data = None
    /\ Fresh
    /\ pc = "load"

\* lines 14-20: data = load_data(), read once and served from the cache after
LoadData ==
    /\ pc = "load"
    /\ cache' = IF cache = None THEN load_data(file) ELSE cache
    /\ data' = cache'
    /\ pc' = "sidebar"
    /\ UNCHANGED <<file, product_type, supplier, location, transport_mode,
                   filtered_data, kpi, insights, csv>>

\* lines 30-33: each multiselect returns any subset of its column's values
SidebarFilters ==
    /\ pc = "sidebar"
    /\ product_type' \in SUBSET unique(data, c_product_type)
    /\ supplier' \in SUBSET unique(data, c_supplier_name)
    /\ location' \in SUBSET unique(data, c_location)
    /\ transport_mode' \in SUBSET unique(data, c_transportation_modes)
    /\ pc' = "filter"
    /\ UNCHANGED <<file, cache, data, filtered_data, kpi, insights, csv>>

\* the filter without data.copy(), narrowing the shared frame in place
FilterDataInPlace ==
    /\ pc = "filter"
    /\ filtered_data' = filter_columns(data, product_type, supplier, location,
                                       transport_mode)
    /\ data' = filtered_data'
    /\ cache' = filtered_data'
    /\ pc' = "kpi"
    /\ UNCHANGED <<file, product_type, supplier, location,
                   transport_mode, kpi, insights, csv>>

\* lines 35-43: a copy of data, narrowed by each non-empty selection
FilterData ==
    /\ pc = "filter"
    /\ filtered_data' = filter_columns(data, product_type, supplier, location,
                                       transport_mode)
    /\ pc' = "kpi"
    /\ UNCHANGED <<file, cache, data, product_type, supplier, location,
                   transport_mode, kpi, insights, csv>>

\* lines 49-57: the four metrics; nothing raises, NaN is formatted and shown
KpiSection ==
    /\ pc = "kpi"
    /\ kpi' = [set |-> TRUE,
               total_revenue |-> sum(filtered_data, c_revenue_generated),
               avg_lead_time |-> mean(filtered_data, c_lead_time),
               total_production |-> sum(filtered_data, c_production_volumes),
               avg_defect_rate |-> mean(filtered_data, c_defect_rates)]
    /\ pc' = "insights"
    /\ UNCHANGED <<file, cache, data, product_type, supplier, location,
                   transport_mode, filtered_data, insights, csv>>

\* lines 63-72: the three insights; idxmax on no groups raises, nothing catches it
\* and the script run ends there
InsightsSection ==
    /\ pc = "insights"
    /\ LET top == top_location_revenue_of(filtered_data)
           sup == highest_cost_supplier_of(filtered_data)
           tm  == most_efficient_mode_of(filtered_data)
       IN  IF top.ok /\ sup.ok /\ tm.ok
           THEN /\ insights' = [set |-> TRUE, top_location_revenue |-> top,
                                highest_cost_supplier |-> sup,
                                most_efficient_mode |-> tm]
                /\ pc' = "tabs"
           ELSE /\ insights' = insights
                /\ pc' = "aborted"
    /\ UNCHANGED <<file, cache, data, product_type, supplier, location,
                   transport_mode, filtered_data, kpi, csv>>

\* lines 77-156: the charts read filtered_data (melt and value_counts build new frames)
Tabs ==
    /\ pc = "tabs"
    /\ pc' = "download"
    /\ UNCHANGED <<file, cache, data, product_type, supplier, location,
                   transport_mode, filtered_data, kpi, insights, csv>>

\* lines 161-162: the export
Download ==
    /\ pc = "download"
    /\ csv' = to_csv(filtered_data)
    /\ pc' = "done"
    /\ UNCHANGED <<file, cache, data, product_type, supplier, location,
                   transport_mode, filtered_data, kpi, insights>>

\* a widget changes: Streamlit runs the script again from the top
Rerun ==
    /\ pc \in {"done", "aborted"}
    /\ data' = None
    /\ product_type' = {}
    /\ supplier' = {}
    /\ location' = {}
    /\ transport_mode' = {}
    /\ filtered_data' = None
    /\ kpi' = NoKpi
    /\ insights' = NoInsights
    /\ csv' = NoCsv
    /\ pc' = "load"
    /\ UNCHANGED <<file, cache>>

Next ==
    \/ LoadData
    \/ SidebarFilters
    \/ FilterData
    \/ KpiSection
    \/ InsightsSection
    \/ Tabs
    \/ Download
    \/ Rerun

\* files whose filter columns vary
InitFilter ==
    InitWith(FilterFiles)

SpecFilter ==
    InitFilter /\ [][Next]_vars

\* files whose group columns and aggregated values vary
InitGroup ==
    InitWith(GroupFiles)

SpecGroup ==
    InitGroup /\ [][Next]_vars

----------------------------------------------------------------------------
(* Properties of the filter engine *)

FilterColumns ==
    <<c_product_type, c_supplier_name, c_location, c_transportation_modes>>

\* the filter specification of the current run
Selection ==
    <<product_type, supplier, location, transport_mode>>

\* the filter has just run: filtered_data is the view of data under Selection,
\* and no later step of the run assigns any of them
Filtered ==
    pc = "kpi"

\* the record passes every column whose allowed set is not empty
Admits(sel, r) ==
    \A i \in 1..4 : sel[i] = {} \/ r[ColIndex(data, FilterColumns[i])] \in sel[i]

\* the Filtered View of data under a filter specification
ViewOf(sel) ==
    filter_columns(data, sel[1], sel[2], sel[3], sel[4])

RECURSIVE StepsOver(_, _, _)
\* the filter steps of the columns listed in cols only, in that order
StepsOver(df, sel, cols) ==
    IF cols = <<>> THEN df
    ELSE StepsOver(FilterStep(df, FilterColumns[Head(cols)], sel[Head(cols)]),
                   sel, Tail(cols))

\* the column positions 1..4 without i
Without(i) ==
    SelectSeq(<<1, 2, 3, 4>>, LAMBDA j : j # i)

\* C1: the Filtered View is exactly the records of the Dataset, in the Dataset's
\* order, whose value in every column with a non-empty allowed set is in that set
C1_FilteredViewIsConjunction ==
    Filtered =>
        /\ filtered_data.columns = data.columns
        /\ filtered_data.rows = SelectSeq(data.rows, LAMBDA r : Admits(Selection, r))

\* two columns constrain at once and exactly one of two records survives
C1_Witness ==
    /\ pc = "kpi"
    /\ product_type # {}
    /\ location # {}
    /\ Len(data.rows) = 2
    /\ filtered_data.rows = <<data.rows[2]>>
    /\ data.rows[1][1] \in product_type
    /\ data.rows[1][3] \notin location

\* C2: a column with an empty allowed set filters as if it were left out of the
\* specification; with every set empty the view is the whole Dataset
C2_EmptySelectionPassThrough ==
    Filtered =>
        /\ \A i \in 1..4 :
              Selection[i] = {} => filtered_data = StepsOver(data, Selection, Without(i))
        /\ (\A i \in 1..4 : Selection[i] = {}) => filtered_data = data

\* one column is left empty while another one drops a record
C2_Witness ==
    /\ pc = "kpi"
    /\ product_type = {}
    /\ supplier # {}
    /\ Len(data.rows) = 2
    /\ Len(filtered_data.rows) = 1

\* new narrows old as the claim words it: values removed, or a column that was
\* unconstrained
NarrowsAsClaimed(old, new) ==
    IF old = {} THEN TRUE ELSE new \subseteq old

\* the same, but the values removed leave at least one
NarrowsKeepingOne(old, new) ==
    IF old = {} THEN TRUE ELSE new \subseteq old /\ new # {}

\* the specification with column i's allowed set replaced
WithColumn(i, S) ==
    [Selection EXCEPT ![i] = S]

\* C3 as claimed: narrowing any column's allowed set never gives more records
C3_MonotoneAsClaimed ==
    Filtered =>
        \A i \in 1..4 : \A S \in SUBSET unique(data, FilterColumns[i]) :
            NarrowsAsClaimed(Selection[i], S) =>
                Len(ViewOf(WithColumn(i, S)).rows) <= Len(filtered_data.rows)

\* C3 amended: narrowing any column's allowed set to a set that is still not
\* empty, or constraining an unconstrained column, never gives more records
C3_MonotoneWhileNonEmpty ==
    Filtered =>
        \A i \in 1..4 : \A S \in SUBSET unique(data, FilterColumns[i]) :
            NarrowsKeepingOne(Selection[i], S) =>
                Len(ViewOf(WithColumn(i, S)).rows) <= Len(filtered_data.rows)

\* removing one of two allowed product types loses a record
C3_Witness ==
    /\ pc = "kpi"
    /\ Cardinality(product_type) = 2
    /\ \E v \in product_type :
          Len(ViewOf(WithColumn(1, {v})).rows) < Len(filtered_data.rows)

\* C4: filtering the Filtered View again with the same specification returns it
C4_Idempotent ==
    Filtered =>
        filter_columns(filtered_data, product_type, supplier, location,
                       transport_mode) = filtered_data

\* a view that kept one record and dropped another is filtered again
C4_Witness ==
    /\ pc = "kpi"
    /\ transport_mode # {}
    /\ filtered_data.rows # <<>>
    /\ Len(filtered_data.rows) < Len(data.rows)

\* C9: no step of any run changes the cached Dataset once it is loaded, and the
\* script's data is that Dataset whenever the script holds one
C9_DatasetNeverChanged ==
    [][/\ cache # None => cache' = cache
       /\ pc' # "load" => data' = cache']_vars

\* a run has dropped a record of a loaded two-record Dataset and exported the rest
C9_Witness ==
    /\ pc = "done"
    /\ Len(cache.rows) = 2
    /\ Len(filtered_data.rows) = 1
    /\ Len(csv.rows) = 1

----------------------------------------------------------------------------
(* Properties of the aggregations *)

\* the Filtered View exists and has no record
EmptyView ==
    filtered_data # None /\ filtered_data.rows = <<>>

\* C5: over a view of zero records the mean KPIs raise; no KPI value is computed
\* from them and shown
C5_EmptyMeanRaises ==
    EmptyView => ~kpi.set

\* C6: over a view of zero records the insights are replaced by a sentinel and
\* the script run is not cut short
C6_EmptyInsightsRecoverable ==
    EmptyView => pc # "aborted"

\* the three insights as the script instantiates them
InsightKinds ==
    {[by |-> c_location, val |-> c_revenue_generated, red |-> "sum", dir |-> "max"],
     [by |-> c_supplier_name, val |-> c_manufacturing_costs, red |-> "mean", dir |-> "max"],
     [by |-> c_transportation_modes, val |-> c_costs, red |-> "mean", dir |-> "min"]}

\* what the script computed for an insight
Computed(ins) ==
    IF ins.by = c_location THEN insights.top_location_revenue
    ELSE IF ins.by = c_supplier_name THEN insights.highest_cost_supplier
    ELSE insights.most_efficient_mode

\* the group keys present in the view
KeysIn(ins) ==
    {filtered_data.rows[i][ColIndex(filtered_data, ins.by)] : i \in DOMAIN filtered_data.rows}

\* the positions of the records of one group
Members(ins, key) ==
    {i \in DOMAIN filtered_data.rows :
        filtered_data.rows[i][ColIndex(filtered_data, ins.by)] = key}

RECURSIVE Total(_, _)
\* the total of the value column over a set of positions
Total(ins, I) ==
    IF I = {} THEN 0
    ELSE LET i == CHOOSE i \in I : TRUE
         IN  filtered_data.rows[i][ColIndex(filtered_data, ins.val)].n
             + Total(ins, I \ {i})

\* group a's aggregate is strictly better than group b's, in the insight's direction
Beats(ins, a, b) ==
    LET ta == Total(ins, Members(ins, a))
        tb == Total(ins, Members(ins, b))
        na == IF ins.red = "sum" THEN 1 ELSE Cardinality(Members(ins, a))
        nb == IF ins.red = "sum" THEN 1 ELSE Cardinality(Members(ins, b))
    IN  IF ins.dir = "max" THEN ta * nb > tb * na ELSE ta * nb < tb * na

\* the groups whose aggregate is the extremum
Extreme(ins) ==
    {k \in KeysIn(ins) : \A x \in KeysIn(ins) : ~Beats(ins, x, k)}

\* of a set of keys, the one whose first record comes first in the view
FirstSeen(ins, K) ==
    LET j == ColIndex(filtered_data, ins.by)
        i == CHOOSE i \in DOMAIN filtered_data.rows :
                 /\ filtered_data.rows[i][j] \in K
                 /\ \A h \in 1..(i - 1) : filtered_data.rows[h][j] \notin K
    IN  filtered_data.rows[i][j]

\* of a set of keys, the least in the order of the column's values
Least(K) ==
    CHOOSE k \in K : \A x \in K : x = k \/ CellLess(k, x)

\* C7 as claimed: among tied extreme groups the insight names the one first seen
\* in the record order
C7_TieFirstSeen ==
    insights.set =>
        \A ins \in InsightKinds :
            Cardinality(Extreme(ins)) >= 2 =>
                Computed(ins).key = FirstSeen(ins, Extreme(ins))

\* C7 amended: among tied extreme groups the insight names the one whose key is
\* least in sorted key order (numbers by value, text by code point)
C7_TieLeastKey ==
    insights.set =>
        \A ins \in InsightKinds :
            Cardinality(Extreme(ins)) >= 2 =>
                Computed(ins).key = Least(Extreme(ins))

\* two locations tie for the top revenue and the one seen first is not the least
C7_Witness ==
    /\ insights.set
    /\ \E ins \in InsightKinds :
          /\ ins.by = c_location
          /\ Cardinality(Extreme(ins)) = 2
          /\ FirstSeen(ins, Extreme(ins)) # Least(Extreme(ins))

\* C8: on a non-empty view every insight names a group whose aggregate (sum of
\* revenue per location, mean manufacturing cost per supplier, mean cost per
\* mode) is the extremum over the groups present (max, max, min), and the
\* insights raise on no such view
C8_InsightIsExtremum ==
    /\ pc = "aborted" => filtered_data.rows = <<>>
    /\ (pc = "tabs" /\ filtered_data.rows # <<>>) =>
          /\ insights.set
          /\ \A ins \in InsightKinds :
                Computed(ins).ok /\ Computed(ins).key \in Extreme(ins)

\* the records (A,100),(B,150),(A,60): A wins by its sum 160 though B has the
\* largest record and the largest mean
C8_Witness ==
    /\ pc = "tabs"
    /\ Len(filtered_data.rows) = 3
    /\ [i \in 1..3 |-> filtered_data.rows[i][3]] =
           <<StrCell(<<"A">>), StrCell(<<"B">>), StrCell(<<"A">>)>>
    /\ [i \in 1..3 |-> filtered_data.rows[i][5]] =
           <<IntCell(100), IntCell(150), IntCell(60)>>
    /\ insights.top_location_revenue = Label(StrCell(<<"A">>))

----------------------------------------------------------------------------
(* Properties of the export *)

\* C10: the exported CSV has the view's column names as header and one row per
\* record in order, and loading it gives back the view
C10_ExportRoundTrip ==
    pc = "done" =>
        /\ csv.header = filtered_data.columns
        /\ Len(csv.rows) = Len(filtered_data.rows)
        /\ load_data(csv) = filtered_data

====
